---------------------------- MODULE Spec2Model ----------------------------
(***************************************************************************)
(* A model of emd/spectra.py: the instantaneous-frequency estimators and   *)
(* the spectral aggregators.                                               *)
(*                                                                         *)
(* Every function of the module is pure, so the state is one call frame:   *)
(*   call    the function being run                                        *)
(*   args    its arguments                                                 *)
(*   pc      the position inside it                                        *)
(*   locals  the local names bound so far and their values                 *)
(*   ret     nothing yet, the returned value, or the raised exception      *)
(*   stdout  the messages written so far                                   *)
(* Arrays are functions over 0..n-1, as the source indexes them.  Reals    *)
(* are exact: integers, rationals <<num, den>> where a division occurs,    *)
(* irrational roots <<"root", n, radicand>> on the 'log' scale, and tagged *)
(* floats <<"num", v>> / <<"nan">> where NaN can occur.                    *)
(***************************************************************************)
EXTENDS Integers, Sequences, FiniteSets, TLC

VARIABLES call, args, pc, locals, ret, stdout

vars == <<call, args, pc, locals, ret, stdout>>

-----------------------------------------------------------------------------
(* Bounds of the model.                                                    *)

\* define_hist_bins: data_min, data_max range over 0..MaxData, nbins over 0..MaxBins
MaxData == 10
MaxBins == 5
\* define_hist_bins_from_data: X has 1..MaxLen samples with values in 0..MaxX
MaxLen == 4
MaxX == 2
\* freq_from_phase: phases of 1..MaxPhaseLen samples with values in
\* 0..MaxPhase (in units of pi), sample rates 1..MaxRate
MaxPhaseLen == 4
MaxPhase == 3
MaxRate == 2
\* frequency_stats: IMF arrays of 1..MaxT samples, 1..MaxCols columns and, when
\* 3D, 1..MaxCols secondary components
MaxT == 32
MaxCols == 2
\* the aggregators: carrier frequencies 0..MaxFreq or NaN with edges among
\* 1..MaxFreq, AM frequencies 0..MaxAmFreq or NaN with edges among
\* 1..MaxAmFreq, amplitudes 1..MaxAmp
MaxFreq == 3
MaxAmFreq == 2
MaxAmp == 2

-----------------------------------------------------------------------------
(* Generic helpers.                                                        *)

\* len() of an array held as a function over 0..n-1
Size(a) == Cardinality(DOMAIN a)

\* the arrays of length n over the set S
Arr(n, S) == [0..(n - 1) -> S]

RECURSIVE SumTo(_, _)
\* sum of f[0..n-1]
SumTo(f, n) == IF n <= 0 THEN 0 ELSE f[n - 1] + SumTo(f, n - 1)

Abs(x) == IF x < 0 THEN 0 - x ELSE x

RECURSIVE Gcd(_, _)
Gcd(a, b) == IF b = 0 THEN Abs(a) ELSE Gcd(b, a % b)

\* the rational n/d in lowest terms with a positive denominator
Rat(n, d) ==
    LET s == IF d < 0 THEN 0 - 1 ELSE 1
        g == Gcd(Abs(n), Abs(d))
    IN <<(s * n) \div g, (s * d) \div g>>

RatAdd(p, q) == Rat(p[1] * q[2] + q[1] * p[2], p[2] * q[2])
RatSub(p, q) == Rat(p[1] * q[2] - q[1] * p[2], p[2] * q[2])
RatMul(p, q) == Rat(p[1] * q[1], p[2] * q[2])
RatDiv(p, q) == Rat(p[1] * q[2], p[2] * q[1])
RatHalf(p) == Rat(p[1], 2 * p[2])
RatLt(p, q) == p[1] * q[2] < q[1] * p[2]

\* the float not-a-number
NaN == <<"nan">>
IsNaN(x) == x = NaN

RECURSIVE Pow(_, _)
Pow(x, k) == IF k = 0 THEN 1 ELSE x * Pow(x, k - 1)

\* the outcomes of a call
NoResult == [kind |-> "none"]
Return(v) == [kind |-> "return", value |-> v]
Raise(exc, line) == [kind |-> "raise", exc |-> exc, line |-> line]

-----------------------------------------------------------------------------
(* Histogram binning utility.                                              *)

\* np.linspace(start, stop, num) in exact arithmetic, endpoint included
linspace(start, stop, num) ==
    [i \in 0..(num - 1) |->
        IF num = 1 THEN Rat(start, 1)
        ELSE Rat(start * (num - 1) + i * (stop - start), num - 1)]

\* the slip of asking linspace for nbins points instead of nbins+1
linear_edges_short(data_min, data_max, nbins) == linspace(data_min, data_max, nbins)

\* the edges of the 'linear' scale
linear_edges(data_min, data_max, nbins) == linspace(data_min, data_max, nbins + 1)

\* exp of the point i of linspace(log a, log b, n + 1) for a, b > 0: the real
\* a^((n-i)/n) * b^(i/n), the n-th root of a^(n-i) * b^i.  It lies between a
\* and b, and is the integer x when x^n is the radicand; an irrational root
\* is kept as <<"root", n, radicand>>.
exp_log_point(a, b, i, n) ==
    LET radicand == Pow(a, n - i) * Pow(b, i)
        lo == IF a < b THEN a ELSE b
        hi == IF a < b THEN b ELSE a
        roots == {x \in lo..hi : Pow(x, n) = radicand}
    IN IF roots # {} THEN Rat(CHOOSE x \in roots : TRUE, 1)
       ELSE <<"root", n, radicand>>

\* the edges of the 'log' scale for data_min, data_max >= 0:
\* p = np.log([data_min,data_max]), np.linspace(p[0],p[1],nbins+1), np.exp.
\* np.log(0) is -inf.  linspace computes i * step + start and then overwrites
\* the last of several points with stop: a single point is 0 * (stop - start)
\* + start, NaN unless both logs are finite; with start = -inf every point
\* but the last is NaN; with stop = -inf the first point is 0 * -inf = NaN
\* and the others are -inf, whose exp is 0.
log_edges(data_min, data_max, nbins) ==
    [i \in 0..nbins |->
        IF nbins = 0
        THEN IF data_min > 0 /\ data_max > 0 THEN Rat(data_min, 1) ELSE NaN
        ELSE IF i = nbins THEN Rat(data_max, 1)
        ELSE IF data_min > 0 /\ data_max > 0
             THEN exp_log_point(data_min, data_max, i, nbins)
        ELSE IF data_min > 0 /\ i > 0 THEN Rat(0, 1)
        ELSE NaN]

\* (x + y) / 2 on edges: NaN when either is NaN, the rational mean of two
\* rationals, and <<"mean", x, y>> when an irrational root is involved
mean(x, y) ==
    IF IsNaN(x) \/ IsNaN(y) THEN NaN
    ELSE IF Len(x) = 2 /\ Len(y) = 2 THEN RatHalf(RatAdd(x, y))
    ELSE <<"mean", x, y>>

\* centres = [(edges[ii]+edges[ii+1])/2 for ii in range(len(edges)-1)]
bin_centres(edges) ==
    [ii \in 0..(Size(edges) - 2) |-> mean(edges[ii], edges[ii + 1])]

\* lines 457-470: the 'log' scale, the 'linear' scale, and the ValueError for
\* any other scale
define_hist_bins(data_min, data_max, nbins, scale) ==
    IF scale = "log"
    THEN LET edges == log_edges(data_min, data_max, nbins)
         IN Return(<<edges, bin_centres(edges)>>)
    ELSE IF scale = "linear"
    THEN LET edges == linear_edges(data_min, data_max, nbins)
         IN Return(<<edges, bin_centres(edges)>>)
    ELSE Raise("ValueError", 465)

\* np.sqrt(n).astype(int): the square root truncated
sqrt_astype_int(n) == CHOOSE k \in 0..n : k * k <= n /\ n < (k + 1) * (k + 1)

ArrMin(X) == CHOOSE m \in {X[i] : i \in DOMAIN X} : \A i \in DOMAIN X : m <= X[i]
ArrMax(X) == CHOOSE m \in {X[i] : i \in DOMAIN X} : \A i \in DOMAIN X : m >= X[i]

\* nbins is <<>> for None and <<n>> for a number
define_hist_bins_from_data(X, nbins, mode, scale) ==
    LET data_min == ArrMin(X)
        data_max == ArrMax(X)
    IN IF nbins = <<>>
       THEN IF mode = "sqrt"
            THEN define_hist_bins(data_min, data_max, sqrt_astype_int(Size(X)), scale)
            ELSE Raise("ValueError", 500)
       ELSE define_hist_bins(data_min, data_max, nbins[1], scale)

Scales == {"log", "linear", "cubic"}
BinModes == {"sqrt", "fd"}

InitBins ==
    /\ pc = "start"
    /\ locals = <<>>
    /\ ret = NoResult
    /\ stdout = <<>>
    /\ \/ /\ call = "define_hist_bins"
          /\ args \in [data_min : 0..MaxData, data_max : 0..MaxData,
                       nbins : 0..MaxBins, scale : Scales]
       \/ /\ call = "define_hist_bins_from_data"
          /\ \E n \in 1..MaxLen :
                args \in [X : Arr(n, 0..MaxX), nbins : {<<>>, <<1>>, <<2>>},
                          mode : BinModes, scale : Scales]

DefineHistBins ==
    /\ call = "define_hist_bins"
    /\ pc = "start"
    /\ ret' = define_hist_bins(args.data_min, args.data_max, args.nbins, args.scale)
    /\ pc' = "done"
    /\ UNCHANGED <<call, args, locals, stdout>>

DefineHistBinsFromData ==
    /\ call = "define_hist_bins_from_data"
    /\ pc = "start"
    /\ ret' = define_hist_bins_from_data(args.X, args.nbins, args.mode, args.scale)
    /\ pc' = "done"
    /\ UNCHANGED <<call, args, locals, stdout>>

NextBins == DefineHistBins \/ DefineHistBinsFromData

SpecBins == InitBins /\ [][NextBins]_vars

\* C9: define_hist_bins with scale 'linear', data_min < data_max and nbins >= 1
\* returns nbins+1 strictly increasing, equally spaced edges from data_min to
\* data_max and nbins centres that are the midpoints of adjacent edges;
\* (0, 10, 5) gives edges [0,2,4,6,8,10] and centres [1,3,5,7,9]; and
\* define_hist_bins_from_data with nbins unset hands floor(sqrt(sample count))
\* and the data minimum and maximum to the same computation.
C9_LinearBins ==
    /\ ( /\ call = "define_hist_bins" /\ pc = "done"
         /\ args.scale = "linear" /\ args.data_min < args.data_max /\ args.nbins >= 1 )
       => /\ ret.kind = "return"
          /\ LET edges == ret.value[1]
                 centres == ret.value[2]
                 n == args.nbins
                 step == Rat(args.data_max - args.data_min, n)
             IN /\ DOMAIN edges = 0..n
                /\ DOMAIN centres = 0..(n - 1)
                /\ edges[0] = Rat(args.data_min, 1)
                /\ edges[n] = Rat(args.data_max, 1)
                /\ \A i \in 0..(n - 1) :
                      /\ RatLt(edges[i], edges[i + 1])
                      /\ RatSub(edges[i + 1], edges[i]) = step
                      /\ RatAdd(centres[i], centres[i]) = RatAdd(edges[i], edges[i + 1])
                /\ (args.data_min = 0 /\ args.data_max = 10 /\ n = 5)
                   => /\ edges = [i \in 0..5 |-> <<2 * i, 1>>]
                      /\ centres = [i \in 0..4 |-> <<2 * i + 1, 1>>]
    /\ ( /\ call = "define_hist_bins_from_data" /\ pc = "done"
         /\ args.nbins = <<>> /\ args.mode = "sqrt" /\ args.scale = "linear" )
       => /\ ret.kind = "return"
          /\ LET edges == ret.value[1]
                 k == Size(edges) - 1
                 X == args.X
             IN /\ k * k <= Size(X) /\ Size(X) < (k + 1) * (k + 1)
                /\ \A i \in DOMAIN X : /\ ~ RatLt(Rat(X[i], 1), edges[0])
                                       /\ ~ RatLt(edges[k], Rat(X[i], 1))
                /\ \E i \in DOMAIN X : edges[0] = Rat(X[i], 1)
                /\ \E i \in DOMAIN X : edges[k] = Rat(X[i], 1)
                /\ \E lo \in 0..MaxX, hi \in 0..MaxX :
                      ret = define_hist_bins(lo, hi, k, "linear")

\* the example of C9 has been computed
C9_Witness ==
    /\ /\ call = "define_hist_bins" /\ pc = "done"
       /\ args = [data_min |-> 0, data_max |-> 10, nbins |-> 5, scale |-> "linear"]
       /\ ret.kind = "return"

-----------------------------------------------------------------------------
(* Phase and frequency.  Phases are rationals in units of pi, so that      *)
(* 2*np.pi is the rational 2; frequencies are rationals in Hz.             *)

TwoPi == Rat(2, 1)

\* np.gradient(f, axis=0): central differences inside, one-sided at the ends
gradient(f) ==
    LET n == Size(f)
    IN [k \in 0..(n - 1) |->
          IF k = 0 THEN RatSub(f[1], f[0])
          ELSE IF k = n - 1 THEN RatSub(f[n - 1], f[n - 2])
          ELSE RatHalf(RatSub(f[k + 1], f[k - 1]))]

RECURSIVE cumsum_at(_, _)
\* np.cumsum(a)[k] = a[0] + ... + a[k]
cumsum_at(a, k) == IF k = 0 THEN a[0] ELSE RatAdd(cumsum_at(a, k - 1), a[k])

cumsum(a) == [k \in DOMAIN a |-> cumsum_at(a, k)]

\* freq_from_phase: gradient of the phase / (2 pi) * sample_rate; np.gradient
\* refuses fewer than two samples
freq_from_phase(iphase, sample_rate) ==
    IF Size(iphase) < 2
    THEN Raise("ValueError", 183)
    ELSE LET d == gradient(iphase)
         IN Return([k \in DOMAIN d |->
                      RatMul(RatDiv(d[k], TwoPi), Rat(sample_rate, 1))])

\* phase_from_freq: phase_start + cumsum((ifrequency / sample_rate) * 2 pi)
phase_from_freq(ifrequency, sample_rate, phase_start) ==
    LET iphase_diff == [k \in DOMAIN ifrequency |->
                          RatMul(RatDiv(ifrequency[k], Rat(sample_rate, 1)), TwoPi)]
        c == cumsum(iphase_diff)
    IN Return([k \in DOMAIN c |-> RatAdd(phase_start, c[k])])

InitPhase ==
    /\ call = "freq_from_phase"
    /\ pc = "start"
    /\ locals = <<>>
    /\ ret = NoResult
    /\ stdout = <<>>
    /\ \E n \in 1..MaxPhaseLen :
          args \in [iphase : Arr(n, {Rat(v, 1) : v \in 0..MaxPhase}),
                    sample_rate : 1..MaxRate]

FreqFromPhase ==
    /\ call = "freq_from_phase"
    /\ pc = "start"
    /\ ret' = freq_from_phase(args.iphase, args.sample_rate)
    /\ pc' = "done"
    /\ UNCHANGED <<call, args, locals, stdout>>

\* the caller of the round trip hands the frequencies back to phase_from_freq
\* with the same sample rate and the first phase as phase_start
RoundTripCall ==
    /\ call = "freq_from_phase"
    /\ pc = "done"
    /\ ret.kind = "return"
    /\ call' = "phase_from_freq"
    /\ args' = [ifrequency |-> ret.value, sample_rate |-> args.sample_rate,
                phase_start |-> args.iphase[0]]
    /\ locals' = [phase |-> args.iphase]
    /\ pc' = "start"
    /\ ret' = NoResult
    /\ UNCHANGED stdout

PhaseFromFreq ==
    /\ call = "phase_from_freq"
    /\ pc = "start"
    /\ ret' = phase_from_freq(args.ifrequency, args.sample_rate, args.phase_start)
    /\ pc' = "done"
    /\ UNCHANGED <<call, args, locals, stdout>>

NextPhase == FreqFromPhase \/ RoundTripCall \/ PhaseFromFreq

SpecPhase == InitPhase /\ [][NextPhase]_vars

\* the phase is linear in time: every step equals the first
LinearPhase(p) == \A k \in 1..(Size(p) - 1) : RatSub(p[k], p[k - 1]) = RatSub(p[1], p[0])

\* C7: for a phase of length >= 2 that is linear in time and any fs > 0,
\* phase_from_freq(freq_from_phase(phase, fs), fs, phase[0])[k] = phase[k]
\* at every index k except possibly k = 0.
C7_RoundTrip ==
    ( /\ call = "phase_from_freq" /\ pc = "done"
      /\ LinearPhase(locals.phase) )
    => /\ ret.kind = "return"
       /\ \A k \in 1..(Size(locals.phase) - 1) : ret.value[k] = locals.phase[k]

-----------------------------------------------------------------------------
(* frequency_stats.  The Hilbert transform, the envelope interpolation and *)
(* the smoothing filter are numerical collaborators, so arrays are held by *)
(* their shape; what is modelled is the dispatch on the method, the names  *)
(* each branch binds, the exceptions, and the shapes of the results.       *)

\* the default of the parameter smooth_phase
DefaultSmoothPhase == 31

\* the names the function assigns somewhere in its body (its local names)
FunctionLocals == {"imf", "sample_rate", "method", "smooth_phase",
                   "analytic_signal", "iamp", "orig_dim", "ii", "jj",
                   "n_imf", "iphase", "ifreq"}

\* the names bound at module level
ModuleGlobals == {"np", "signal", "sparse", "utils", "frequency_stats",
                  "quadrature_transform", "phase_from_analytic_signal",
                  "freq_from_phase", "phase_from_freq", "direct_quadrature",
                  "phase_angle", "holospectrum_am", "holospectrum",
                  "hilberthuang", "hilberthuang_1d", "define_hist_bins",
                  "define_hist_bins_from_data", "mean_vector",
                  "__name__", "__doc__", "__package__", "__loader__",
                  "__spec__", "__file__", "__cached__", "__builtins__"}

\* names of the builtins module, the scope searched after the module's own;
\* the function body reads range (lines 64, 65, 80), ValueError (line 74) and
\* print (line 84) from it
Builtins == {"print", "range", "len", "abs", "all", "any", "bool", "dict",
             "enumerate", "float", "int", "isinstance", "list", "map", "max",
             "min", "object", "round", "set", "sorted", "str", "sum", "tuple",
             "type", "zip", "None", "True", "False",
             "BaseException", "Exception", "ArithmeticError", "AttributeError",
             "IndexError", "KeyError", "NameError", "RuntimeError",
             "TypeError", "UnboundLocalError", "ValueError",
             "ZeroDivisionError"}

\* reading a name inside the function: a bound local, else an unbound local
\* (UnboundLocalError), else a module global, else a builtin, else NameError
Resolve(l, name) ==
    IF name \in DOMAIN l THEN [ok |-> TRUE, value |-> l[name]]
    ELSE IF name \in FunctionLocals THEN [ok |-> FALSE, exc |-> "UnboundLocalError"]
    ELSE IF name \in ModuleGlobals THEN [ok |-> TRUE, value |-> <<>>]
    ELSE IF name \in Builtins THEN [ok |-> TRUE, value |-> <<>>]
    ELSE [ok |-> FALSE, exc |-> "NameError"]

\* the assignment name = v
Bind(l, name, v) == [n \in DOMAIN l \cup {name} |-> IF n = name THEN v ELSE l[n]]

\* utils.amplitude_normalise keeps the shape of its argument
amplitude_normalise(shape) == shape

\* utils.interp_envelope returns an envelope as long as its 1D argument
interp_envelope(n) == n

\* quadrature_transform on shapes: np.diff drops one sample, mask[-1,None,:]
\* needs a last row of the difference, np.r_ puts the sample back
quadrature_transform(shape) ==
    LET nX == amplitude_normalise(shape)
        diff == [nX EXCEPT ![1] = nX[1] - 1]
    IN IF diff[1] < 1
       THEN Raise("IndexError", 117)
       ELSE Return([diff EXCEPT ![1] = diff[1] + 1])

\* phase_from_analytic_signal on shapes: unwrap and angle keep the shape; the
\* order-1 smoothing filter needs 1 < smoothing <= number of samples
phase_from_analytic_signal(shape, smoothing) ==
    IF smoothing <= 1 \/ smoothing > shape[1]
    THEN Raise("ValueError", 149)
    ELSE Return(shape)

\* freq_from_phase on shapes: the gradient needs two samples
freq_from_phase_shape(shape) ==
    IF shape[1] < 2 THEN Raise("ValueError", 183) ELSE Return(shape)

\* utils.wrap_phase works elementwise
wrap_phase(shape) == shape

Methods == {"hilbert", "quad", "direct_quad", "welch", ""}

Shapes == {<<t, n>> : t \in 1..MaxT, n \in 1..MaxCols}
          \cup {<<t, n, m>> : t \in 1..MaxT, n \in 1..MaxCols, m \in 1..MaxCols}

InitFS ==
    /\ call = "frequency_stats"
    /\ pc = "dispatch"
    /\ args \in [imf : Shapes, sample_rate : 1..MaxRate, method : Methods,
                 smooth_phase : {3, DefaultSmoothPhase}]
    /\ locals = [n \in {"imf", "sample_rate", "method", "smooth_phase"} |-> args[n]]
    /\ ret = NoResult
    /\ stdout = <<>>

\* lines 47, 54, 73, 83: the if/elif chain on the method
Dispatch ==
    /\ call = "frequency_stats"
    /\ pc = "dispatch"
    /\ pc' = CASE locals["method"] = "hilbert" -> "hilbert"
               [] locals["method"] = "quad" -> "quad"
               [] locals["method"] = "direct_quad" -> "direct_quad"
               [] OTHER -> "else"
    /\ UNCHANGED <<call, args, locals, ret, stdout>>

\* lines 49-52: signal.hilbert( X, axis=0 ) and np.abs of it
HilbertBranch ==
    /\ call = "frequency_stats"
    /\ pc = "hilbert"
    /\ LET X == Resolve(locals, "X")
       IN IF X.ok
          THEN /\ locals' = Bind(Bind(locals, "analytic_signal", X.value), "iamp", X.value)
               /\ pc' = "phase"
               /\ ret' = ret
          ELSE /\ ret' = Raise(X.exc, 49)
               /\ pc' = "done"
               /\ locals' = locals
    /\ UNCHANGED <<call, args, stdout>>

\* for name in range(n): ... leaves the name at n - 1 once the loop has run,
\* and unbound when n = 0
for_range(l, name, n) == IF n >= 1 THEN Bind(l, name, n - 1) ELSE l

\* lines 56-71: the quadrature transform, then the upper envelope of every
\* (column, component) slice written into an array shaped like imf; the loop
\* variables ii and jj stay in the frame
QuadBranch ==
    /\ call = "frequency_stats"
    /\ pc = "quad"
    /\ LET q == quadrature_transform(locals["imf"])
           orig_dim == Len(locals["imf"])
           imf3 == IF orig_dim = 2 THEN locals["imf"] \o <<1>> ELSE locals["imf"]
           iamp3 == <<interp_envelope(imf3[1]), imf3[2], imf3[3]>>
           iamp == IF orig_dim = 2 THEN SubSeq(iamp3, 1, 2) ELSE iamp3
       IN IF q.kind = "raise"
          THEN /\ ret' = q
               /\ pc' = "done"
               /\ locals' = locals
          ELSE /\ LET l1 == Bind(Bind(Bind(locals, "analytic_signal", q.value),
                                        "orig_dim", orig_dim), "imf", imf3)
                      l2 == for_range(l1, "ii", imf3[2])
                      l3 == IF imf3[2] >= 1 THEN for_range(l2, "jj", imf3[3]) ELSE l2
                  IN locals' = Bind(l3, "iamp", iamp)
               /\ pc' = "phase"
               /\ ret' = ret
    /\ UNCHANGED <<call, args, stdout>>

\* the branch with its raise left out: lines 76-81 run
DirectQuadBranchNoRaise ==
    /\ call = "frequency_stats"
    /\ pc = "direct_quad"
    /\ locals' = for_range(Bind(Bind(Bind(locals, "n_imf",
                                           amplitude_normalise(locals["imf"])),
                                      "iphase", locals["imf"]), "iamp", locals["imf"]),
                            "ii", locals["imf"][2])
    /\ pc' = "phase"
    /\ UNCHANGED <<call, args, ret, stdout>>

\* lines 73-74: raise ValueError('direct_quad method is broken!'); nothing
\* after the raise runs
DirectQuadBranch ==
    /\ call = "frequency_stats"
    /\ pc = "direct_quad"
    /\ ret' = Raise("ValueError", 74)
    /\ pc' = "done"
    /\ UNCHANGED <<call, args, locals, stdout>>

\* lines 83-84: the message is written and the function goes on
ElseBranch ==
    /\ call = "frequency_stats"
    /\ pc = "else"
    /\ stdout' = Append(stdout, "Method not recognised")
    /\ pc' = "phase"
    /\ UNCHANGED <<call, args, locals, ret>>

\* line 87: the unwrapped, smoothed phase of analytic_signal
ComputePhase ==
    /\ call = "frequency_stats"
    /\ pc = "phase"
    /\ LET a == Resolve(locals, "analytic_signal")
           r == phase_from_analytic_signal(a.value, locals["smooth_phase"])
       IN IF ~ a.ok
          THEN /\ ret' = Raise(a.exc, 87)
               /\ pc' = "done"
               /\ locals' = locals
          ELSE IF r.kind = "raise"
          THEN /\ ret' = r
               /\ pc' = "done"
               /\ locals' = locals
          ELSE /\ locals' = Bind(locals, "iphase", r.value)
               /\ pc' = "freq"
               /\ ret' = ret
    /\ UNCHANGED <<call, args, stdout>>

\* line 88: the frequency from the phase
ComputeFreq ==
    /\ call = "frequency_stats"
    /\ pc = "freq"
    /\ LET r == freq_from_phase_shape(locals["iphase"])
       IN IF r.kind = "raise"
          THEN /\ ret' = r
               /\ pc' = "done"
               /\ locals' = locals
          ELSE /\ locals' = Bind(locals, "ifreq", r.value)
               /\ pc' = "return"
               /\ ret' = ret
    /\ UNCHANGED <<call, args, stdout>>

\* lines 91-93: the phase is wrapped and the triple returned
ReturnStats ==
    /\ call = "frequency_stats"
    /\ pc = "return"
    /\ locals' = Bind(locals, "iphase", wrap_phase(locals["iphase"]))
    /\ LET iamp == Resolve(locals, "iamp")
       IN ret' = IF iamp.ok
                 THEN Return(<<wrap_phase(locals["iphase"]), locals["ifreq"], iamp.value>>)
                 ELSE Raise(iamp.exc, 93)
    /\ pc' = "done"
    /\ UNCHANGED <<call, args, stdout>>

NextFS ==
    \/ Dispatch
    \/ HilbertBranch
    \/ QuadBranch
    \/ DirectQuadBranch
    \/ ElseBranch
    \/ ComputePhase
    \/ ComputeFreq
    \/ ReturnStats

SpecFS == InitFS /\ [][NextFS]_vars

ParameterNames == {"imf", "sample_rate", "method", "smooth_phase"}

\* C1: with a method that is none of 'hilbert', 'quad', 'direct_quad' the call
\* fails with a configuration error (ValueError) raised in the else branch of
\* the dispatch: it never goes on to the phase computation.
C1_UnknownMethodRejected ==
    ( /\ call = "frequency_stats"
      /\ args.method \notin {"hilbert", "quad", "direct_quad"}
      /\ pc \notin {"dispatch", "else"} )
    => /\ pc = "done"
       /\ ret.kind = "raise"
       /\ ret.exc = "ValueError"
       /\ ret.line \in 83..85

\* an IMF array the supported methods accept: long enough for the smoothing
\* window
ValidImf == args.imf[1] >= args.smooth_phase

\* C2: for the methods 'hilbert' and 'quad' and every valid IMF array the
\* call returns (phase, frequency, amplitude), each shaped like the IMF array.
C2_SupportedMethodsReturn ==
    ( /\ call = "frequency_stats"
      /\ args.method \in {"hilbert", "quad"}
      /\ ValidImf
      /\ pc = "done" )
    => /\ ret.kind = "return"
       /\ ret.value = <<args.imf, args.imf, args.imf>>

\* C3: with method 'direct_quad' the call raises ValueError at line 74 and
\* does nothing else: no name beyond the parameters is ever bound (no
\* normalisation, phase or envelope), nothing is written, nothing is returned.
C3_DirectQuadRaises ==
    ( call = "frequency_stats" /\ args.method = "direct_quad" )
    => /\ DOMAIN locals = ParameterNames
       /\ stdout = <<>>
       /\ \/ pc \in {"dispatch", "direct_quad"} /\ ret = NoResult
          \/ pc = "done" /\ ret = Raise("ValueError", 74)

\* a direct_quad call has ended
C3_Witness ==
    /\ call = "frequency_stats"
    /\ args.method = "direct_quad"
    /\ pc = "done"
    /\ ret.kind = "raise"

-----------------------------------------------------------------------------
(* The spectral aggregators.  A frequency is <<"num", v>> or NaN; edges    *)
(* and amplitudes are integers.                                            *)

Num(v) == <<"num", v>>

\* np.digitize(x, bins) for increasing bins: the i with bins[i-1] <= x < bins[i],
\* 0 below bins[0], len(bins) from bins[-1] on; NaN sorts after every edge
digitize(x, bins) ==
    IF IsNaN(x) THEN Size(bins)
    ELSE Cardinality({i \in DOMAIN bins : bins[i] <= x[2]})

\* inam**2 when mode == 'energy', inam otherwise
magnitude(a, mode) == IF mode = "energy" THEN a * a ELSE a

\* a scipy.sparse.coo_matrix: its shape and its (row, col, data) entries, in
\* order, duplicates kept
RECURSIVE coo_cell(_, _, _)
\* the value of cell (r, c): duplicate entries are summed
coo_cell(entries, r, c) ==
    IF entries = <<>> THEN 0
    ELSE (IF Head(entries).row = r /\ Head(entries).col = c THEN Head(entries).data ELSE 0)
         + coo_cell(Tail(entries), r, c)

\* coo_matrix((data, (row, col)), shape): an index outside the shape is refused
coo_matrix(entries, shape, line) ==
    IF \E k \in DOMAIN entries :
          \/ entries[k].row < 0 \/ entries[k].row >= shape[1]
          \/ entries[k].col < 0 \/ entries[k].col >= shape[2]
    THEN Raise("ValueError", line)
    ELSE Return([shape |-> shape, entries |-> entries])

\* .toarray()
toarray(coo) ==
    [r \in 0..(coo.shape[1] - 1) |->
        [c \in 0..(coo.shape[2] - 1) |-> coo_cell(coo.entries, r, c)]]

\* line 388: goods = (yinds < len(freq_edges)-1) or (yinds == 0)
goods(yind, freq_edges) == yind < Size(freq_edges) - 1 \/ yind = 0

\* hilberthuang: infr and inam are T x N
hilberthuang(infr, inam, freq_edges, mode, return_sparse) ==
    LET T == Size(infr)
        N == Size(infr[0])
        \* the flattened (reshape(-1)) coordinates: entry k is sample (k \div N, k % N)
        coo_data == [k \in 1..(T * N) |->
                        LET t == (k - 1) \div N
                            n == (k - 1) % N
                        IN [data |-> magnitude(inam[t][n], mode),
                            row |-> digitize(infr[t][n], freq_edges),
                            col |-> t]]
        keep(e) == goods(e.row, freq_edges)
        hht == coo_matrix(SelectSeq(coo_data, keep), <<Size(freq_edges) - 1, T>>, 392)
    IN IF hht.kind = "raise" THEN hht
       ELSE IF return_sparse THEN hht
       ELSE Return(toarray(hht.value))

\* lines 423-424: frequencies outside [fbins[0], fbins[-1]] become NaN
mask_outside(x, fbins) ==
    IF IsNaN(x) THEN x
    ELSE IF x[2] < fbins[0] \/ x[2] > fbins[Size(fbins) - 1] THEN NaN
    ELSE x

\* hilberthuang_1d: infr and inam are T x N
hilberthuang_1d(infr, inam, fbins, mode) ==
    LET T == Size(infr)
        N == Size(infr[0])
        finds == [t \in 0..(T - 1) |->
                    [n \in 0..(N - 1) |-> digitize(mask_outside(infr[t][n], fbins), fbins)]]
        \* np.nansum over the samples of column jj whose index is ii
        picked(ii, jj, pow) ==
            SumTo([t \in 0..(T - 1) |->
                     IF finds[t][jj] = ii
                     THEN (IF pow = 2 THEN inam[t][jj] * inam[t][jj] ELSE inam[t][jj])
                     ELSE 0], T)
    IN Return([ii \in 0..(Size(fbins) - 2) |->
                 [jj \in 0..(N - 1) |->
                     IF mode = "power" THEN picked(ii, jj, 1)
                     ELSE IF mode = "energy" THEN picked(ii, jj, 2)
                     ELSE 0]])

\* the strictly increasing arrays of at least two edges among 1..hi
SortedArr(S) ==
    [i \in 0..(Cardinality(S) - 1) |->
        CHOOSE e \in S : Cardinality({x \in S : x < e}) = i]
EdgeArrays(hi) == {SortedArr(S) : S \in {S \in SUBSET (1..hi) : Cardinality(S) >= 2}}

Freqs(hi) == {Num(v) : v \in 0..hi} \cup {NaN}

Modes == {"energy", "power", "amplitude"}

\* the shapes (T, N) of the model
HhtShapes == {<<1, 1>>, <<2, 1>>, <<1, 2>>, <<2, 2>>}

InitHHT ==
    /\ pc = "start"
    /\ locals = <<>>
    /\ ret = NoResult
    /\ stdout = <<>>
    /\ \E sh \in HhtShapes :
         \E infr \in Arr(sh[1], Arr(sh[2], Freqs(MaxFreq))),
            inam \in Arr(sh[1], Arr(sh[2], 1..MaxAmp)),
            edges \in EdgeArrays(MaxFreq), mode \in Modes :
            \/ /\ call = "hilberthuang"
               /\ \E sparse \in BOOLEAN :
                     args = [infr |-> infr, inam |-> inam, freq_edges |-> edges,
                             mode |-> mode, return_sparse |-> sparse]
            \/ /\ call = "hilberthuang_1d"
               /\ args = [infr |-> infr, inam |-> inam, fbins |-> edges, mode |-> mode]

Hilberthuang ==
    /\ call = "hilberthuang"
    /\ pc = "start"
    /\ ret' = hilberthuang(args.infr, args.inam, args.freq_edges, args.mode,
                           args.return_sparse)
    /\ pc' = "done"
    /\ UNCHANGED <<call, args, locals, stdout>>

Hilberthuang1d ==
    /\ call = "hilberthuang_1d"
    /\ pc = "start"
    /\ ret' = hilberthuang_1d(args.infr, args.inam, args.fbins, args.mode)
    /\ pc' = "done"
    /\ UNCHANGED <<call, args, locals, stdout>>

NextHHT == Hilberthuang \/ Hilberthuang1d

SpecHHT == InitHHT /\ [][NextHHT]_vars

\* the frequency x lies in the half-open bin [edges[i], edges[i+1])
InBin(x, edges, i) == ~ IsNaN(x) /\ edges[i] <= x[2] /\ x[2] < edges[i + 1]

\* cell (i, t) of a hilberthuang result, sparse or dense
HhtCell(result, sparse, i, t) ==
    IF sparse THEN coo_cell(result.entries, i, t) ELSE result[i][t]

\* C4: hilberthuang, dense or sparse, puts every sample in the half-open bin
\* that contains it: cell [i, t] is the sum of the magnitudes (amplitude
\* squared in 'energy' mode) of the samples at time t with
\* freq_edges[i] <= f < freq_edges[i+1], so a sample below freq_edges[0] or
\* from freq_edges[-1] on adds to no cell.
C4_HalfOpenBins ==
    ( call = "hilberthuang" /\ pc = "done" )
    => /\ ret.kind = "return"
       /\ \A i \in 0..(Size(args.freq_edges) - 2), t \in DOMAIN args.infr :
             HhtCell(ret.value, args.return_sparse, i, t) =
                SumTo([n \in DOMAIN args.infr[t] |->
                         IF InBin(args.infr[t][n], args.freq_edges, i)
                         THEN magnitude(args.inam[t][n], args.mode) ELSE 0],
                      Size(args.infr[t]))

\* the squared amplitudes of the samples of column jj with lo <= f < hi, or
\* lo <= f <= hi when closed
ColumnEnergy(infr, inam, jj, lo, hi, closed) ==
    SumTo([t \in DOMAIN infr |->
             LET x == infr[t][jj]
             IN IF ~ IsNaN(x) /\ lo <= x[2] /\ (x[2] < hi \/ (closed /\ x[2] = hi))
                THEN inam[t][jj] * inam[t][jj] ELSE 0],
          Size(infr))

\* C5: hilberthuang_1d with mode 'energy' conserves energy: for every column
\* jj the sum of specs[:, jj] over all bins is the sum of the squared
\* amplitudes of the samples of the column inside the edge range (read with
\* the last edge excluded or included), and row i counts the samples of the
\* bin [fbins[i], fbins[i+1]), the last bin too.
C5_EnergyConserved ==
    ( call = "hilberthuang_1d" /\ pc = "done" /\ args.mode = "energy" )
    => /\ ret.kind = "return"
       /\ LET fbins == args.fbins
              last == Size(fbins) - 1
              specs == ret.value
          IN \A jj \in DOMAIN args.infr[0] :
                /\ LET total == SumTo([ii \in 0..(last - 1) |-> specs[ii][jj]], last)
                   IN \/ total = ColumnEnergy(args.infr, args.inam, jj, fbins[0], fbins[last], FALSE)
                      \/ total = ColumnEnergy(args.infr, args.inam, jj, fbins[0], fbins[last], TRUE)
                /\ \A i \in 0..(last - 1) :
                      specs[i][jj] = ColumnEnergy(args.infr, args.inam, jj,
                                                  fbins[i], fbins[i + 1], FALSE)

-----------------------------------------------------------------------------
(* The holospectra.  infr is T x N, infr2 and inam2 are T x N x M.         *)

\* holo.sum(axis=0) taking the first row only
sum_axis0_first(coo) ==
    [c \in 0..(coo.shape[2] - 1) |-> coo_cell(coo.entries, 0, c)]

\* holo.sum(axis=0): the rows (times) of the sparse matrix added up
sum_axis0(coo) ==
    [c \in 0..(coo.shape[2] - 1) |->
        SumTo([r \in 0..(coo.shape[1] - 1) |-> coo_cell(coo.entries, r, c)],
              coo.shape[1])]

\* the fold dimension one too small
fold_dim_short(edges) == Size(edges)

\* lines 333-334: fold_dim = len(edges)+1, one slot per np.digitize result
fold_dim(edges) == Size(edges) + 1

\* line 336: infr_inds + IA_inds * fold_dim1
fold_index(carrier_index, am_index, freq_edges) ==
    carrier_index + am_index * fold_dim(freq_edges)

\* flat.reshape(dim2, dim1)[1:-1, 1:-1]
reshape_trim(flat, dim2, dim1) ==
    [a \in 0..(dim2 - 3) |-> [c \in 0..(dim1 - 3) |-> flat[(a + 1) * dim1 + (c + 1)]]]

holospectrum(infr, infr2, inam2, freq_edges, freq_edges2, mode, return_time) ==
    LET T == Size(infr)
        N == Size(infr[0])
        M == Size(infr2[0][0])
        fold_dim1 == fold_dim(freq_edges)
        fold_dim2 == fold_dim(freq_edges2)
        \* the flattened coordinates: entry k is sample (t, n, m), m fastest
        entries == [k \in 1..(T * N * M) |->
                      LET t == (k - 1) \div (N * M)
                          n == ((k - 1) \div M) % N
                          m == (k - 1) % M
                      IN [data |-> magnitude(inam2[t][n][m], mode),
                          row |-> t,
                          col |-> fold_index(digitize(infr[t][n], freq_edges),
                                             digitize(infr2[t][n][m], freq_edges2),
                                             freq_edges)]]
        holo == coo_matrix(entries, <<T, fold_dim1 * fold_dim2>>, 342)
    IN IF holo.kind = "raise" THEN holo
       ELSE IF return_time
       THEN LET full == toarray(holo.value)
            IN Return([t \in 0..(T - 1) |-> reshape_trim(full[t], fold_dim2, fold_dim1)])
       ELSE Return(reshape_trim(sum_axis0(holo.value), fold_dim2, fold_dim1))

\* line 290 at time t_ind for component imf2_ind:
\*   holo[finds_carrier, finds_am, t_ind, :] += inam2[t_ind, :, :]
\* The indexed block is N x N and the added block N x M; the sums are formed
\* from the old cells and then assigned row by row, so of two rows that name
\* the same cell the later one stays.
am_update(holo, t_ind, imf2_ind, infr, infr2, inam2, fbins, fbins2) ==
    LET N == Size(infr[t_ind])
        M == Size(inam2[t_ind][0])
        finds_carrier == [n \in 0..(N - 1) |-> digitize(infr[t_ind][n], fbins)]
        finds_am == [n \in 0..(N - 1) |-> digitize(infr2[t_ind][n][imf2_ind], fbins2)]
        tmp(n, j) == inam2[t_ind][n][IF M = 1 THEN 0 ELSE j]
        hits(c, a) == {n \in 0..(N - 1) : finds_carrier[n] = c /\ finds_am[n] = a}
        last(S) == CHOOSE n \in S : \A x \in S : x <= n
    IN [c \in DOMAIN holo |->
         [a \in DOMAIN holo[c] |->
           [t \in DOMAIN holo[c][a] |->
             [j \in DOMAIN holo[c][a][t] |->
                IF t = t_ind /\ hits(c, a) # {}
                THEN holo[c][a][t][j] + tmp(last(hits(c, a)), j)
                ELSE holo[c][a][t][j]]]]]

RECURSIVE am_loop(_, _, _, _, _, _, _)
\* the two nested loops of lines 279-290, iterations 0..k-1 done
am_loop(k, holo, infr, infr2, inam2, fbins, fbins2) ==
    LET M == Size(infr2[0][0])
    IN IF k = 0 THEN holo
       ELSE am_update(am_loop(k - 1, holo, infr, infr2, inam2, fbins, fbins2),
                      (k - 1) \div M, (k - 1) % M, infr, infr2, inam2, fbins, fbins2)

holospectrum_am(infr, infr2, inam2, fbins, fbins2) ==
    LET T == Size(infr)
        N == Size(infr[0])
        M == Size(infr2[0][0])
        zeros == [c \in 0..Size(fbins) |-> [a \in 0..Size(fbins2) |->
                    [t \in 0..(T - 1) |-> [j \in 0..(N - 1) |-> 0]]]]
    IN IF M # 1 /\ M # N
       THEN Raise("ValueError", 290)
       ELSE Return(am_loop(T * M, zeros, infr, infr2, inam2, fbins, fbins2))

\* the shapes (T, N, M) of the model
HoloShapes == {<<1, 1, 1>>, <<2, 1, 1>>, <<1, 2, 1>>, <<1, 1, 2>>}

\* a call of holospectrum with the given return_time
InitHoloWith(return_time) ==
    /\ pc = "start"
    /\ locals = <<>>
    /\ ret = NoResult
    /\ stdout = <<>>
    /\ call = "holospectrum"
    /\ \E sh \in HoloShapes :
         args \in [infr : Arr(sh[1], Arr(sh[2], Freqs(MaxFreq))),
                   infr2 : Arr(sh[1], Arr(sh[2], Arr(sh[3], Freqs(MaxAmFreq)))),
                   inam2 : Arr(sh[1], Arr(sh[2], Arr(sh[3], 1..MaxAmp))),
                   freq_edges : EdgeArrays(MaxFreq),
                   freq_edges2 : EdgeArrays(MaxAmFreq),
                   mode : {"energy", "amplitude"},
                   return_time : {return_time}]

InitHolo == InitHoloWith(TRUE)

InitHoloCollapsed == InitHoloWith(FALSE)

Holospectrum ==
    /\ call = "holospectrum"
    /\ pc = "start"
    /\ ret' = holospectrum(args.infr, args.infr2, args.inam2, args.freq_edges,
                           args.freq_edges2, args.mode, args.return_time)
    /\ pc' = "done"
    /\ UNCHANGED <<call, args, locals, stdout>>

NextHolo == Holospectrum

\* the time-resolved holospectrum
SpecHolo == InitHolo /\ [][NextHolo]_vars

\* the holospectrum with the time axis summed away
SpecHoloCollapsed == InitHoloCollapsed /\ [][NextHolo]_vars

InitHoloAm ==
    /\ pc = "start"
    /\ locals = <<>>
    /\ ret = NoResult
    /\ stdout = <<>>
    /\ call = "holospectrum_am"
    /\ \E sh \in HoloShapes :
         args \in [infr : Arr(sh[1], Arr(sh[2], Freqs(MaxFreq))),
                   infr2 : Arr(sh[1], Arr(sh[2], Arr(sh[3], Freqs(MaxAmFreq)))),
                   inam2 : Arr(sh[1], Arr(sh[2], Arr(sh[3], 1..MaxAmp))),
                   fbins : EdgeArrays(MaxFreq),
                   fbins2 : EdgeArrays(MaxAmFreq)]

HolospectrumAm ==
    /\ call = "holospectrum_am"
    /\ pc = "start"
    /\ ret' = holospectrum_am(args.infr, args.infr2, args.inam2, args.fbins, args.fbins2)
    /\ pc' = "done"
    /\ UNCHANGED <<call, args, locals, stdout>>

NextHoloAm == HolospectrumAm

SpecHoloAm == InitHoloAm /\ [][NextHoloAm]_vars

\* the magnitudes of the samples at time t whose carrier frequency lies in
\* [freq_edges[i], freq_edges[i+1]) and whose AM frequency lies in
\* [freq_edges2[j], freq_edges2[j+1])
HoloCellSum(a, t, i, j, mode) ==
    LET N == Size(a.infr[t])
        M == Size(a.infr2[t][0])
    IN SumTo([n \in 0..(N - 1) |->
                SumTo([m \in 0..(M - 1) |->
                         IF /\ InBin(a.infr[t][n], a.freq_edges, i)
                            /\ InBin(a.infr2[t][n][m], a.freq_edges2, j)
                         THEN magnitude(a.inam2[t][n][m], mode) ELSE 0], M)], N)

\* C6: for the same inputs, holospectrum with return_time=True summed over
\* its time axis equals holospectrum with return_time=False cell for cell,
\* and both have the same two frequency dimensions in the same order.
C6_TimeSumConsistent ==
    ( call = "holospectrum" /\ pc = "done" /\ ~ args.return_time )
    => LET timed == holospectrum(args.infr, args.infr2, args.inam2, args.freq_edges,
                                 args.freq_edges2, args.mode, TRUE)
           T == Size(args.infr)
       IN /\ ret.kind = "return"
          /\ timed.kind = "return"
          /\ \A t \in 0..(T - 1) :
                /\ DOMAIN timed.value[t] = DOMAIN ret.value
                /\ \A j \in DOMAIN ret.value : DOMAIN timed.value[t][j] = DOMAIN ret.value[j]
          /\ DOMAIN ret.value = 0..(Size(args.freq_edges2) - 2)
          /\ \A j \in DOMAIN ret.value :
                /\ DOMAIN ret.value[j] = 0..(Size(args.freq_edges) - 2)
                /\ \A i \in DOMAIN ret.value[j] :
                      ret.value[j][i] = SumTo([t \in 0..(T - 1) |-> timed.value[t][j][i]], T)

\* a collapsed holospectrum of two time samples that both reach the same
\* returned cell
C6_Witness ==
    /\ call = "holospectrum" /\ pc = "done" /\ ~ args.return_time
    /\ Size(args.infr) = 2
    /\ ret.kind = "return"
    /\ \E j \in DOMAIN ret.value : \E i \in DOMAIN ret.value[j] :
          /\ HoloCellSum(args, 0, i, j, args.mode) > 0
          /\ HoloCellSum(args, 1, i, j, args.mode) > 0
          /\ ret.value[j][i] > HoloCellSum(args, 0, i, j, args.mode)

\* C10: the folded index carrier_index + am_index * (len(freq_edges)+1) is
\* injective over the pairs of digitize results and lies inside the columns
\* of the sparse accumulator; and after unfolding and trimming the cell for
\* (time t, carrier bin i, AM bin j) holds exactly the magnitudes of the
\* samples at time t inside both half-open bins, so a sample with either
\* frequency outside its edge range reaches no returned cell.
C10_FoldAndTrim ==
    ( call = "holospectrum" /\ pc = "done" /\ args.return_time )
    => LET nc == Size(args.freq_edges)
           na == Size(args.freq_edges2)
           columns == (nc + 1) * (na + 1)
           \* the folded indices of all pairs of digitize results
           folded == {fold_index(c, a, args.freq_edges) : c \in 0..nc, a \in 0..na}
       IN /\ folded \subseteq 0..(columns - 1)
          \* injective: as many folded indices as pairs
          /\ Cardinality(folded) = (nc + 1) * (na + 1)
          /\ ret.kind = "return"
          /\ DOMAIN ret.value = DOMAIN args.infr
          /\ \A t \in DOMAIN ret.value :
                /\ DOMAIN ret.value[t] = 0..(na - 2)
                /\ \A j \in 0..(na - 2) :
                      /\ DOMAIN ret.value[t][j] = 0..(nc - 2)
                      /\ \A i \in 0..(nc - 2) :
                            ret.value[t][j][i] = HoloCellSum(args, t, i, j, args.mode)

\* a time-resolved holospectrum of two samples at one time: one inside a
\* returned cell, the other outside the edge range
C10_Witness ==
    /\ call = "holospectrum" /\ pc = "done" /\ args.return_time
    /\ ret.kind = "return"
    /\ Size(args.infr[0]) * Size(args.infr2[0][0]) = 2
    /\ \E j \in DOMAIN ret.value[0] : \E i \in DOMAIN ret.value[0][j] :
          ret.value[0][j][i] > 0
    /\ \E n \in DOMAIN args.infr[0] : \E m \in DOMAIN args.infr2[0][n] :
          \/ digitize(args.infr[0][n], args.freq_edges) \in {0, Size(args.freq_edges)}
          \/ digitize(args.infr2[0][n][m], args.freq_edges2) \in {0, Size(args.freq_edges2)}

\* C8: holospectrum_am agrees with holospectrum: summed over its component
\* axis, the value it accumulates for a carrier bin, AM bin and time equals
\* the un-squared amplitude total holospectrum (return_time=True, mode other
\* than 'energy') accumulates for the same bins and time; each amplitude is
\* added once.
C8_AmConsistent ==
    ( call = "holospectrum_am" /\ pc = "done" )
    => LET sparse == holospectrum(args.infr, args.infr2, args.inam2, args.fbins,
                                  args.fbins2, "amplitude", TRUE)
           N == Size(args.infr[0])
       IN /\ ret.kind = "return"
          /\ \A t \in DOMAIN args.infr :
             \A j \in 0..(Size(args.fbins2) - 2), i \in 0..(Size(args.fbins) - 2) :
                SumTo(ret.value[i + 1][j + 1][t], N) = sparse.value[t][j][i]

=============================================================================
